---------------------------- MODULE Spec2Model ----------------------------
(***************************************************************************)
(* Model of main.py: readCsvAndCleanData, performDataWrangling,            *)
(* performEDA and the __main__ block that chains them and writes           *)
(* cleanFile.csv.                                                          *)
(*                                                                         *)
(* A table is a sequence of rows.  A row is [idx, cells]: idx is the       *)
(* pandas index label (kept by drop_duplicates, dropna and boolean         *)
(* filtering), cells maps a column name to a cell.                         *)
(*                                                                         *)
(* A cell is [t, v, s]:                                                    *)
(*   t = "nan"  a missing value (NaN / NaT)                                *)
(*   t = "num"  a field of the file holding the decimal integer v          *)
(*   t = "str"  a field of the file holding the text s                     *)
(*   t = "f64"  a float64; v counts sixteenths, so that medians, linear    *)
(*              quantiles and the 1.5*IQR fence of the small integers of   *)
(*              the model are exact, as they are in binary floating point  *)
(*   t = "date" a Timestamp; v is the day ordinal                          *)
(***************************************************************************)
EXTENDS Integers, Sequences, FiniteSets, TLC

VARIABLES
    file,           \* file.csv: [readable, columns, rows]
    pc,             \* position in __main__ / readCsvAndCleanData
    pass,           \* which run of the cleaning steps is in progress (1 or 2)
    messy_df,       \* the dataframe threaded through the three stages
    columns,        \* the column labels of messy_df
    AgeMedian,      \* local of readCsvAndCleanData
    salesMedian,    \* local of readCsvAndCleanData
    profitsMedian,  \* local of readCsvAndCleanData
    modal_date,     \* local of readCsvAndCleanData
    lowerB,         \* local of readCsvAndCleanData
    upperB,         \* local of readCsvAndCleanData
    firstOutput,    \* the table returned by the first run, once a second run started
    cleanFile,      \* cleanFile.csv: the sequence of tables written to it
    error           \* the exception that ended the run, "" if none

vars == <<file, pc, pass, messy_df, columns, AgeMedian, salesMedian, profitsMedian,
          modal_date, lowerB, upperB, firstOutput, cleanFile, error>>

----------------------------------------------------------------------------
(* Bounds of the model. *)

\* rows of a table drawn freely from MessyPool
MaxMessyRows == 2
\* rows of a table of the Sales/Category family
MaxRows == 7
\* rows of that family sharing one (Sales, Category) pair
MaxCopies == 3

----------------------------------------------------------------------------
(* Cells. *)

NaN == [t |-> "nan", v |-> 0, s |-> ""]
Num(n) == [t |-> "num", v |-> n, s |-> ""]
Str(x) == [t |-> "str", v |-> 0, s |-> x]
F64(x) == [t |-> "f64", v |-> x, s |-> ""]
Timestamp(d) == [t |-> "date", v |-> d, s |-> ""]
Unset == [t |-> "unset", v |-> 0, s |-> ""]

isna(c) == c.t = "nan"

\* The float64 holding the integer n.
Float(n) == F64(n * 16)

RequiredColumns == {"Age", "Gender", "Sales", "Profit", "Date", "Category", "Discount"}

\* The texts pandas parses as dates, with their day ordinals.
DateTexts == {"2024-01-01", "2024-01-02"}
DateOrdinal(x) == IF x = "2024-01-01" THEN 1 ELSE 2

----------------------------------------------------------------------------
(* Sequence helpers. *)

\* A column of df as a sequence of cells.
Column(df, c) == [i \in 1..Len(df) |-> df[i].cells[c]]

\* df with column c replaced by the series col (df[c] = col).
Assign(df, c, col) ==
    [i \in 1..Len(df) |-> [df[i] EXCEPT !.cells = [@ EXCEPT ![c] = col[i]]]]

\* Series.dropna() of a numeric or date column, as the sequence of its v.
RECURSIVE DropNa(_)
DropNa(col) ==
    IF col = <<>> THEN <<>>
    ELSE IF isna(Head(col)) THEN DropNa(Tail(col))
         ELSE <<Head(col).v>> \o DropNa(Tail(col))

Sorted(xs) == SortSeq(xs, LAMBDA a, b : a < b)

\* The integers of S in increasing order.
RECURSIVE Ascending(_)
Ascending(S) ==
    IF S = {} THEN <<>>
    ELSE LET m == CHOOSE x \in S : \A y \in S : x <= y
         IN  <<m>> \o Ascending(S \ {m})

----------------------------------------------------------------------------
(* pandas / numpy operations used by the cleaner. *)

\* DataFrame.drop_duplicates(): keeps the first of the rows equal on every column.
RECURSIVE DropDuplicatesFrom(_, _)
DropDuplicatesFrom(seen, df) ==
    IF df = <<>> THEN seen
    ELSE IF \E i \in 1..Len(seen) : seen[i].cells = Head(df).cells
         THEN DropDuplicatesFrom(seen, Tail(df))
         ELSE DropDuplicatesFrom(Append(seen, Head(df)), Tail(df))

\* Mutant of drop_duplicates: the result is discarded (no inplace=True).
drop_duplicates_NotInPlace(df) == df

drop_duplicates(df) == DropDuplicatesFrom(<<>>, df)

\* Mutant of to_numeric: parses the fields of the file only, so that a value
\* that is already a float is lost.
to_numeric_FieldsOnly(c) ==
    CASE c.t = "num" -> Float(c.v)
      [] OTHER       -> NaN

\* pandas.to_numeric's parse of one cell; text that is no number is not parsed.
Parses(c) == c.t # "str"
to_numeric(c) ==
    CASE c.t = "num" -> Float(c.v)
      [] c.t = "f64" -> c
      [] OTHER       -> NaN

\* pandas.to_numeric of a column.
ToNumeric(col) == [i \in 1..Len(col) |-> to_numeric(col[i])]

\* pandas.to_datetime(errors='coerce') of one cell.
to_datetime(c) ==
    CASE c.t = "date" -> c
      [] c.t = "str" /\ c.s \in DateTexts -> Timestamp(DateOrdinal(c.s))
      [] OTHER -> NaN

\* pandas.to_datetime(errors='coerce') of a column.
ToDatetime(col) == [i \in 1..Len(col) |-> to_datetime(col[i])]

\* numpy.median of the non-missing values of a column; NaN for none.
median(col) ==
    LET xs == Sorted(DropNa(col))
        n  == Len(xs)
    IN  IF n = 0 THEN NaN
        ELSE IF n % 2 = 1 THEN F64(xs[(n + 1) \div 2])
        ELSE F64((xs[n \div 2] + xs[n \div 2 + 1]) \div 2)

\* Series.fillna(value): a NaN value fills nothing.
fillna(col, value) == [i \in 1..Len(col) |-> IF isna(col[i]) THEN value ELSE col[i]]

\* Series.replace(old, new).
replace(col, old, new) == [i \in 1..Len(col) |-> IF col[i] = old THEN new ELSE col[i]]

\* Series.quantile(num/den), linear interpolation over the non-missing values.
quantile(col, num, den) ==
    LET xs == Sorted(DropNa(col))
        n  == Len(xs)
        p  == (n - 1) * num
        i  == p \div den
        r  == p % den
    IN  IF n = 0 THEN NaN
        ELSE IF r = 0 THEN F64(xs[i + 1])
        ELSE F64(xs[i + 1] + ((xs[i + 2] - xs[i + 1]) * r) \div den)

\* Series.mode(): the most frequent non-missing values, sorted.
mode(col) ==
    LET xs == DropNa(col)
        count(x) == Cardinality({i \in 1..Len(xs) : xs[i] = x})
        vals == {xs[i] : i \in 1..Len(xs)}
        top == {x \in vals : \A y \in vals : count(y) <= count(x)}
    IN  Ascending(top)

\* Float comparisons: any comparison with NaN is False.
Lt(a, b) == ~isna(a) /\ ~isna(b) /\ a.v < b.v
Gt(a, b) == ~isna(a) /\ ~isna(b) /\ a.v > b.v
Ge(a, b) == ~isna(a) /\ ~isna(b) /\ a.v >= b.v

\* Float arithmetic: NaN propagates.
Minus(a, b) == IF isna(a) \/ isna(b) THEN NaN ELSE F64(a.v - b.v)
Plus(a, b) == IF isna(a) \/ isna(b) THEN NaN ELSE F64(a.v + b.v)
\* 1.5 * a
OneAndHalf(a) == IF isna(a) THEN NaN ELSE F64((3 * a.v) \div 2)


----------------------------------------------------------------------------
(* The steps of readCsvAndCleanData, one operator per column block. *)

\* Lines 26-29: Age to numeric, missing filled with the median.
AgeFilled(df) ==
    LET typed == ToNumeric(Column(df, "Age"))
    IN  Assign(df, "Age", fillna(typed, median(typed)))

\* Lines 36-37: missing or empty Gender becomes "Other".
GenderFilled(df) ==
    Assign(df, "Gender",
           replace(fillna(Column(df, "Gender"), Str("Other")), Str(""), Str("Other")))

\* Mutant of SalesMedianOf: the median is taken after the rows without
\* Category were dropped.
SalesMedianOfRowsWithCategory(df) ==
    median(ToNumeric(Column(
        SelectSeq(df, LAMBDA r : "Category" \in DOMAIN r.cells => ~isna(r.cells["Category"])),
        "Sales")))

\* Line 45: the median of the Sales that parsed, over every row of df.
SalesMedianOf(df) == median(ToNumeric(Column(df, "Sales")))

\* Mutant of SalesFilled: missing Sales filled with 0, as Discount is.
SalesFilledWithZero(df) ==
    Assign(df, "Sales", fillna(ToNumeric(Column(df, "Sales")), Float(0)))

\* Lines 43-46: Sales to numeric (text becomes NaN), missing filled with the median.
SalesFilled(df) ==
    Assign(df, "Sales", fillna(ToNumeric(Column(df, "Sales")), SalesMedianOf(df)))

\* Lines 51-54: Profit, as Sales.
ProfitFilled(df) ==
    LET typed == ToNumeric(Column(df, "Profit"))
    IN  Assign(df, "Profit", fillna(typed, median(typed)))

\* Line 62: the modes of the parsed Date column.
DateModes(df) == mode(ToDatetime(Column(df, "Date")))

\* Lines 59-65: Date to datetime, missing filled with the first mode.
DateFilled(df) ==
    Assign(df, "Date",
           fillna(ToDatetime(Column(df, "Date")), Timestamp(DateModes(df)[1])))

\* Mutant of CategoryKept: the result of dropna is not assigned back.
CategoryKeptNotAssigned(df) == df

\* Line 70: rows with a missing Category are dropped.
CategoryKept(df) == SelectSeq(df, LAMBDA r : ~isna(r.cells["Category"]))

\* Lines 76-77: Discount to numeric (text becomes NaN), missing filled with 0.
DiscountFilled(df) ==
    Assign(df, "Discount", fillna(ToNumeric(Column(df, "Discount")), Float(0)))

\* Lines 82-88: the quartiles of Sales and the two bounds of the fence.
LowerRange(df) == quantile(Column(df, "Sales"), 1, 4)
HigherRange(df) == quantile(Column(df, "Sales"), 3, 4)
interQuartRange(df) == Minus(HigherRange(df), LowerRange(df))
UpperBound(df) == Plus(HigherRange(df), OneAndHalf(interQuartRange(df)))
LowerBound(df) == Minus(LowerRange(df), OneAndHalf(interQuartRange(df)))

\* Mutant of NotOutlying: the upper bound is not tested.
NotOutlyingBelowOnly(sales, lo, hi) == ~Lt(sales, lo)

\* Line 91: the mask of the rows kept by the fence.
NotOutlying(sales, lo, hi) == ~(Lt(sales, lo) \/ Gt(sales, hi))

WithoutOutliers(df) ==
    SelectSeq(df, LAMBDA r : NotOutlying(r.cells["Sales"], LowerBound(df), UpperBound(df)))

----------------------------------------------------------------------------
(* performDataWrangling. *)

\* Line 100: float division; x/0 is +-inf, 0/0 and NaN operands give NaN.
\* The quotient is kept as the pair of its operands (den = 0: inf or NaN).
Divide(a, b) ==
    IF isna(a) \/ isna(b) THEN [num |-> 0, den |-> 0]
    ELSE [num |-> a.v, den |-> b.v]

\* Mutant of MatureStatus: > in place of >=.
MatureStatusStrictlyOlder(x) == IF Gt(x, Float(25)) THEN "Mature" ELSE "Not Mature"

\* Line 108: the lambda classifying an age.
MatureStatus(x) == IF Ge(x, Float(25)) THEN "Mature" ELSE "Not Mature"

Wrangled(df) ==
    [i \in 1..Len(df) |->
        [df[i] EXCEPT !.cells =
            ("Profit Margin" :> Divide(df[i].cells["Profit"], df[i].cells["Sales"]))
            @@ ("Mature Status" :> Str(MatureStatus(df[i].cells["Age"])))
            @@ @]]

----------------------------------------------------------------------------
(* The input files of the model. *)

BaseCells ==
    [Age |-> Num(25), Gender |-> Str("M"), Sales |-> Num(1), Profit |-> Num(1),
     Date |-> Str("2024-01-01"), Category |-> Str("A"), Discount |-> Num(0)]

\* What a field of column c holds in a row that is not the base row.
Alternatives(c) ==
    CASE c = "Age"      -> {NaN, Str("abc"), Num(24)}
      [] c = "Gender"   -> {NaN, Str("F")}
      [] c = "Sales"    -> {NaN, Str("abc"), Str("xyz"), Num(0)}
      [] c = "Profit"   -> {NaN, Str("abc"), Num(2)}
      [] c = "Date"     -> {NaN, Str("not a date"), Str("2024-01-02")}
      [] c = "Category" -> {NaN, Str("B")}
      [] c = "Discount" -> {NaN, Str("ten"), Num(10)}

\* Rows that differ from the base row in at most one field.
MessyPool ==
    {BaseCells} \cup
    {[BaseCells EXCEPT ![c] = x] : <<c, x>> \in
        UNION {{<<c, x>> : x \in Alternatives(c)} : c \in RequiredColumns}}

MessyTables == UNION {[1..n -> MessyPool] : n \in 0..MaxMessyRows}

\* The Sales/Category family: for each (Sales, Category) pair a number of rows,
\* told apart by their Discount.
StudyPairs ==
    << <<Str("abc"), NaN>>, <<Str("abc"), Str("A")>>,
       <<Num(0), NaN>>,     <<Num(0), Str("A")>>,
       <<Num(1), NaN>>,     <<Num(1), Str("A")>>,
       <<Num(2), NaN>>,     <<Num(2), Str("A")>> >>

Copies(pair, k) ==
    [j \in 1..k |-> [BaseCells EXCEPT !["Sales"] = pair[1], !["Category"] = pair[2],
                                      !["Discount"] = Num(j - 1)]]

RECURSIVE StudyTableFrom(_, _)
StudyTableFrom(cnt, i) ==
    IF i > Len(StudyPairs) THEN <<>>
    ELSE Copies(StudyPairs[i], cnt[i]) \o StudyTableFrom(cnt, i + 1)

RECURSIVE Total(_, _)
Total(cnt, i) == IF i > Len(StudyPairs) THEN 0 ELSE cnt[i] + Total(cnt, i + 1)

StudyTables ==
    {StudyTableFrom(cnt, 1) :
        cnt \in {c \in [1..Len(StudyPairs) -> 0..MaxCopies] : Total(c, 1) <= MaxRows}}

Files ==
    {[readable |-> TRUE, columns |-> RequiredColumns, rows |-> t] :
        t \in MessyTables \cup StudyTables}
    \cup {[readable |-> FALSE, columns |-> {}, rows |-> <<>>]}
    \cup {[readable |-> TRUE, columns |-> RequiredColumns \ {c},
           rows |-> <<[k \in RequiredColumns \ {c} |-> BaseCells[k]]>>] :
             c \in RequiredColumns}

----------------------------------------------------------------------------
(* The program. *)

Init ==
    /\ file \in Files
    /\ pc = "read_csv"
    /\ pass = 1
    /\ messy_df = <<>>
    /\ columns = {}
    /\ AgeMedian = Unset
    /\ salesMedian = Unset
    /\ profitsMedian = Unset
    /\ modal_date = Unset
    /\ lowerB = Unset
    /\ upperB = Unset
    /\ firstOutput = <<>>
    /\ cleanFile = <<>>
    /\ error = ""

locals == <<AgeMedian, salesMedian, profitsMedian, modal_date, lowerB, upperB>>

\* Mutant of Raise: the table is saved on the way out (to_csv in a finally).
RaiseAfterSaving(e) ==
    /\ pc' = "failed"
    /\ error' = e
    /\ cleanFile' = Append(cleanFile, messy_df)
    /\ UNCHANGED <<file, pass, messy_df, columns, AgeMedian, salesMedian,
                   profitsMedian, modal_date, lowerB, upperB, firstOutput>>

\* An uncaught exception ends the run.
Raise(e) ==
    /\ pc' = "failed"
    /\ error' = e
    /\ UNCHANGED <<file, pass, messy_df, columns, locals, firstOutput, cleanFile>>

\* Line 17.
ReadCsv ==
    /\ pc = "read_csv"
    /\ IF ~file.readable THEN Raise("ReadError")
       ELSE /\ messy_df' = [i \in 1..Len(file.rows) |->
                               [idx |-> i - 1, cells |-> file.rows[i]]]
            /\ columns' = file.columns
            /\ pc' = "drop_duplicates"
            /\ UNCHANGED <<file, pass, locals, firstOutput, cleanFile, error>>

\* Line 19.
DropDuplicates ==
    /\ pc = "drop_duplicates"
    /\ messy_df' = drop_duplicates(messy_df)
    /\ pc' = "Age"
    /\ UNCHANGED <<file, pass, columns, locals, firstOutput, cleanFile, error>>

\* Lines 26-29.
AgeOperations ==
    /\ pc = "Age"
    /\ IF "Age" \notin columns THEN Raise("KeyError")
       ELSE IF \E i \in 1..Len(messy_df) : ~Parses(messy_df[i].cells["Age"])
       THEN Raise("ValueError")
       ELSE /\ AgeMedian' = median(ToNumeric(Column(messy_df, "Age")))
            /\ messy_df' = AgeFilled(messy_df)
            /\ pc' = "Gender"
            /\ UNCHANGED <<file, pass, columns, salesMedian, profitsMedian, modal_date,
                           lowerB, upperB, firstOutput, cleanFile, error>>

\* Lines 36-37.
GenderOperations ==
    /\ pc = "Gender"
    /\ IF "Gender" \notin columns THEN Raise("KeyError")
       ELSE /\ messy_df' = GenderFilled(messy_df)
            /\ pc' = "Sales"
            /\ UNCHANGED <<file, pass, columns, locals, firstOutput, cleanFile, error>>

\* Lines 43-46.
SalesOperations ==
    /\ pc = "Sales"
    /\ IF "Sales" \notin columns THEN Raise("KeyError")
       ELSE /\ salesMedian' = SalesMedianOf(messy_df)
            /\ messy_df' = SalesFilled(messy_df)
            /\ pc' = "Profit"
            /\ UNCHANGED <<file, pass, columns, AgeMedian, profitsMedian, modal_date,
                           lowerB, upperB, firstOutput, cleanFile, error>>

\* Lines 51-54.
ProfitOperations ==
    /\ pc = "Profit"
    /\ IF "Profit" \notin columns THEN Raise("KeyError")
       ELSE /\ profitsMedian' = median(ToNumeric(Column(messy_df, "Profit")))
            /\ messy_df' = ProfitFilled(messy_df)
            /\ pc' = "Date"
            /\ UNCHANGED <<file, pass, columns, AgeMedian, salesMedian, modal_date,
                           lowerB, upperB, firstOutput, cleanFile, error>>

\* Lines 59-65; mode()[0] of a column with no valid date raises.
DateOperations ==
    /\ pc = "Date"
    /\ IF "Date" \notin columns THEN Raise("KeyError")
       ELSE IF DateModes(messy_df) = <<>> THEN Raise("KeyError")
       ELSE /\ modal_date' = Timestamp(DateModes(messy_df)[1])
            /\ messy_df' = DateFilled(messy_df)
            /\ pc' = "Category"
            /\ UNCHANGED <<file, pass, columns, AgeMedian, salesMedian, profitsMedian,
                           lowerB, upperB, firstOutput, cleanFile, error>>

\* Line 70.
CategoryOperations ==
    /\ pc = "Category"
    /\ IF "Category" \notin columns THEN Raise("KeyError")
       ELSE /\ messy_df' = CategoryKept(messy_df)
            /\ pc' = "Discount"
            /\ UNCHANGED <<file, pass, columns, locals, firstOutput, cleanFile, error>>

\* Lines 76-77.
DiscountOperations ==
    /\ pc = "Discount"
    /\ IF "Discount" \notin columns THEN Raise("KeyError")
       ELSE /\ messy_df' = DiscountFilled(messy_df)
            /\ pc' = "outliers"
            /\ UNCHANGED <<file, pass, columns, locals, firstOutput, cleanFile, error>>

\* Lines 82-95: the fence, and the return to __main__.
CleaningOutliers ==
    /\ pc = "outliers"
    /\ lowerB' = LowerBound(messy_df)
    /\ upperB' = UpperBound(messy_df)
    /\ messy_df' = WithoutOutliers(messy_df)
    /\ pc' = "performDataWrangling"
    /\ UNCHANGED <<file, pass, columns, AgeMedian, salesMedian, profitsMedian,
                   modal_date, firstOutput, cleanFile, error>>

\* Lines 98-110 (the printed discount table is not part of the state).
performDataWrangling ==
    /\ pc = "performDataWrangling"
    /\ messy_df' = Wrangled(messy_df)
    /\ columns' = columns \cup {"Profit Margin", "Mature Status"}
    /\ pc' = "performEDA"
    /\ UNCHANGED <<file, pass, locals, firstOutput, cleanFile, error>>

\* Lines 113-167: reads the table, prints and plots; it returns, or one of
\* its library calls raises.
performEDA ==
    /\ pc = "performEDA"
    /\ \E returns \in BOOLEAN :
          IF returns
          THEN /\ pc' = "to_csv"
               /\ UNCHANGED <<file, pass, messy_df, columns, locals, firstOutput,
                              cleanFile, error>>
          ELSE Raise("EDAError")

\* Line 174.
ToCsv ==
    /\ pc = "to_csv"
    /\ cleanFile' = Append(cleanFile, messy_df)
    /\ pc' = "done"
    /\ UNCHANGED <<file, pass, messy_df, columns, locals, firstOutput, error>>

Next ==
    \/ ReadCsv
    \/ DropDuplicates
    \/ AgeOperations
    \/ GenderOperations
    \/ SalesOperations
    \/ ProfitOperations
    \/ DateOperations
    \/ CategoryOperations
    \/ DiscountOperations
    \/ CleaningOutliers
    \/ performDataWrangling
    \/ performEDA
    \/ ToCsv

Spec == Init /\ [][Next]_vars

\* The cleaning steps (lines 19-95) run a second time, on the table the first
\* run returned.
Rerun ==
    /\ pc = "performDataWrangling"
    /\ pass = 1
    /\ pass' = 2
    /\ firstOutput' = messy_df
    /\ pc' = "drop_duplicates"
    /\ UNCHANGED <<file, messy_df, columns, locals, cleanFile, error>>

NextTwice == Next \/ Rerun

SpecTwice == Init /\ [][NextTwice]_vars

----------------------------------------------------------------------------
(* Vocabulary of the properties. *)

\* readCsvAndCleanData has just returned messy_df to __main__.
Returned == pc = "performDataWrangling"

\* The field of column c that row r of the dataframe had in file.csv.
RawCell(r, c) == file.rows[r.idx + 1][c]

\* The rows of file.csv that drop_duplicates keeps, as index labels.
FirstOccurrences ==
    {k \in 1..Len(file.rows) : \A j \in 1..(k - 1) : file.rows[j] # file.rows[k]}

\* The float64 values of the Sales fields of the rows K of file.csv that hold a number.
RECURSIVE NumericSalesOf(_)
NumericSalesOf(K) ==
    IF K = {} THEN <<>>
    ELSE LET k == CHOOSE x \in K : TRUE
             c == file.rows[k]["Sales"]
         IN  (IF c.t = "num" THEN <<F64(c.v * 16)>> ELSE <<>>) \o NumericSalesOf(K \ {k})

\* lo <= x <= hi on floats (False when any of them is NaN).
Within(x, lo, hi) ==
    /\ x.t = "f64" /\ lo.t = "f64" /\ hi.t = "f64"
    /\ lo.v <= x.v /\ x.v <= hi.v

\* The fence [Q1 - 1.5*IQR, Q3 + 1.5*IQR] of the Sales column of df.
FenceLow(df) ==
    Minus(quantile(Column(df, "Sales"), 1, 4),
          OneAndHalf(Minus(quantile(Column(df, "Sales"), 3, 4),
                           quantile(Column(df, "Sales"), 1, 4))))
FenceHigh(df) ==
    Plus(quantile(Column(df, "Sales"), 3, 4),
         OneAndHalf(Minus(quantile(Column(df, "Sales"), 3, 4),
                          quantile(Column(df, "Sales"), 1, 4))))

----------------------------------------------------------------------------
(* C1 *)

\* C1, as claimed: every Sales value of the returned table lies within the
\* fence computed over the Sales column of that same returned table.  Tables
\* holding a missing Sales (see C3) are set aside, so that the violation shown
\* is one of the fence alone.
C1_FenceIsFixedPoint ==
    (Returned /\ \A i \in 1..Len(messy_df) : ~isna(messy_df[i].cells["Sales"]))
        => \A i \in 1..Len(messy_df) :
              Within(messy_df[i].cells["Sales"], FenceLow(messy_df), FenceHigh(messy_df))

\* C1, amended: no Sales value of the returned table is below Q1 - 1.5*IQR or
\* above Q3 + 1.5*IQR, with Q1 and Q3 taken over the Sales column as it stood
\* when the fence was applied (before the outlying rows were removed).
C1_FencedByColumnBeforeRemoval ==
    [][pc = "outliers" =>
        \A i \in 1..Len(messy_df') :
            LET x == messy_df'[i].cells["Sales"]
            IN  /\ ~(~isna(x) /\ ~isna(FenceLow(messy_df)) /\ x.v < FenceLow(messy_df).v)
                /\ ~(~isna(x) /\ ~isna(FenceHigh(messy_df)) /\ x.v > FenceHigh(messy_df).v)]_vars

\* C1 witness: the fence removed a row, and the fence recomputed over what it
\* returned would remove another.
C1_Witness ==
    /\ Returned
    /\ lowerB.t = "f64"
    /\ \E i \in 1..Len(messy_df) :
          ~Within(messy_df[i].cells["Sales"], FenceLow(messy_df), FenceHigh(messy_df))
    /\ Len(messy_df) < Cardinality({k \in FirstOccurrences :
                                       ~isna(file.rows[k]["Category"])})

----------------------------------------------------------------------------
(* C2 *)

\* The second run of the cleaning steps has just returned.
ReturnedAgain == pc = "performDataWrangling" /\ pass = 2

\* C2, as claimed: the second run returns the table the first run returned.
C2_Idempotent == ReturnedAgain => messy_df = firstOutput

\* C2, amended: a second run adds no row and changes no value; the table it
\* returns is made of rows of the first output, in their order (rows that the
\* first run's imputation made equal to an earlier row, and rows outside the
\* fence recomputed over the first output, are dropped), and it returns only
\* if the first output had a row.
C2_SecondRunOnlyDropsRows ==
    ReturnedAgain =>
        /\ firstOutput # <<>>
        /\ \A i \in 1..Len(messy_df) : \E j \in 1..Len(firstOutput) : messy_df[i] = firstOutput[j]
        /\ \A i \in 1..Len(messy_df) : \A j \in 1..Len(messy_df) :
              i < j => messy_df[i].idx < messy_df[j].idx

\* C2 witness: the second run returned fewer rows than the first, but not none.
C2_Witness ==
    /\ ReturnedAgain
    /\ messy_df # <<>>
    /\ Len(messy_df) < Len(firstOutput)

----------------------------------------------------------------------------
(* C3 *)

\* C3, as claimed: the returned table has no missing value in Age, Sales,
\* Profit, Date or Discount.
C3_NoMissingValues ==
    Returned =>
        \A i \in 1..Len(messy_df) :
            \A c \in {"Age", "Sales", "Profit", "Date", "Discount"} :
                ~isna(messy_df[i].cells[c])

----------------------------------------------------------------------------
(* C4 *)

\* C4, as claimed: no two rows of the returned table are equal on every column.
C4_NoEqualRows ==
    Returned =>
        \A i \in 1..Len(messy_df) : \A j \in 1..Len(messy_df) :
            i # j => messy_df[i].cells # messy_df[j].cells

\* C4, amended: no two rows of the returned table come from rows of the file
\* that were equal on every column; rows that differed in the file only by
\* fields that are imputed or coerced may be equal in the returned table.
C4_NoRowsEqualInFile ==
    Returned =>
        \A i \in 1..Len(messy_df) : \A j \in 1..Len(messy_df) :
            i # j => /\ messy_df[i].idx # messy_df[j].idx
                     /\ file.rows[messy_df[i].idx + 1] # file.rows[messy_df[j].idx + 1]

\* C4 witness: the file held a row twice, and the returned table holds it.
C4_Witness ==
    /\ Returned
    /\ pass = 1
    /\ \E i \in 1..Len(messy_df) : \E k \in 1..Len(file.rows) :
          /\ k # messy_df[i].idx + 1
          /\ file.rows[k] = file.rows[messy_df[i].idx + 1]

----------------------------------------------------------------------------
(* C5 *)

\* The median of the numeric Sales fields of the de-duplicated rows of the file.
MedianOfNumericSales == median(NumericSalesOf(FirstOccurrences))

\* Row k of the file is in the dataframe.
Present(k) == \E i \in 1..Len(messy_df) : messy_df[i].idx = k - 1

\* Rows of the file, kept by drop_duplicates, whose Sales is text that is no
\* number and whose Category is present.
TextSalesRows ==
    {k \in FirstOccurrences :
        file.rows[k]["Sales"].t = "str" /\ ~isna(file.rows[k]["Category"])}

\* Sales of such rows is the median once the Sales block has run.
C5_TextSalesBecomesMedian ==
    (pass = 1 /\ pc \in {"Profit", "Date", "Category"}) =>
        \A i \in 1..Len(messy_df) :
            RawCell(messy_df[i], "Sales").t = "str"
                => messy_df[i].cells["Sales"] = MedianOfNumericSales

\* C5, as claimed: a row whose Sales is non-numeric gets the median of the
\* non-missing Sales, and the fence does not remove it (its Category present).
C5_ImputedRowSurvives ==
    /\ C5_TextSalesBecomesMedian
    /\ (Returned /\ pass = 1) => \A k \in TextSalesRows : Present(k)

\* C5, amended: ... and the fence does not remove it, provided its Category is
\* present and no row with a numeric Sales has a missing Category (the median
\* is then taken over the values the fence is computed over).
C5_ImputedRowSurvivesIfMedianOverKeptRows ==
    /\ C5_TextSalesBecomesMedian
    /\ (/\ Returned /\ pass = 1
        /\ \A k \in 1..Len(file.rows) :
              file.rows[k]["Sales"].t = "num" => ~isna(file.rows[k]["Category"]))
       => \A k \in TextSalesRows : Present(k)

\* C5 witness: a returned row whose Sales was text now holds the median of
\* the numeric Sales, the fence having removed another row.
C5_Witness ==
    /\ Returned /\ pass = 1
    /\ \A k \in 1..Len(file.rows) :
          file.rows[k]["Sales"].t = "num" => ~isna(file.rows[k]["Category"])
    /\ \E i \in 1..Len(messy_df) :
          /\ RawCell(messy_df[i], "Sales").t = "str"
          /\ messy_df[i].cells["Sales"].t = "f64"
    /\ \E k \in FirstOccurrences : ~isna(file.rows[k]["Category"]) /\ ~Present(k)

----------------------------------------------------------------------------
(* C6 *)

\* C6: every returned row has a Category, no row of the file with a missing
\* Category is returned, and the returned rows are at most the rows of the file.
C6_CategoryPresentAndNoMoreRows ==
    (Returned /\ pass = 1) =>
        /\ \A i \in 1..Len(messy_df) : ~isna(messy_df[i].cells["Category"])
        /\ \A k \in 1..Len(file.rows) : isna(file.rows[k]["Category"]) => ~Present(k)
        /\ Len(messy_df) <= Len(file.rows)

\* C6 witness: the file held a row without Category and rows with one, of which
\* some are returned.
C6_Witness ==
    /\ Returned /\ pass = 1
    /\ messy_df # <<>>
    /\ \E k \in 1..Len(file.rows) : isna(file.rows[k]["Category"])

----------------------------------------------------------------------------
(* C7 *)

\* C7: a run that failed has written nothing; cleanFile.csv is written at most
\* once, by the step that follows performEDA's return, in a run that raised
\* nothing and went through cleaning, wrangling and analysis, and it holds
\* the wrangled table.
C7_NoOutputOnFailure ==
    /\ []((pc = "failed" \/ error # "") => cleanFile = <<>>)
    /\ [](Len(cleanFile) <= 1)
    /\ [](cleanFile # <<>> =>
            /\ pc = "done"
            /\ error = ""
            /\ {"Profit Margin", "Mature Status"} \subseteq columns
            /\ cleanFile[1] = messy_df)
    /\ [][cleanFile' # cleanFile =>
            (pc = "to_csv" /\ cleanFile = <<>> /\ pc' = "done")]_vars

\* C7 witness: the Date column held no valid date and the run ended at
\* mode()[0], every earlier block having run.
C7_Witness ==
    /\ pc = "failed"
    /\ error = "KeyError"
    /\ "Date" \in columns
    /\ profitsMedian # Unset
    /\ modal_date = Unset
    /\ messy_df # <<>>

----------------------------------------------------------------------------
(* C8 *)

\* C8: performDataWrangling leaves the rows and their columns as they were,
\* adds the Profit Margin and Mature Status columns and nothing else, and
\* Mature Status is "Mature" exactly for the rows whose Age is >= 25.
C8_WranglerAddsTwoColumns ==
    [][pc = "performDataWrangling" /\ pc' = "performEDA" =>
        /\ Len(messy_df') = Len(messy_df)
        /\ columns' = columns \cup {"Profit Margin", "Mature Status"}
        /\ \A i \in 1..Len(messy_df) :
              /\ messy_df'[i].idx = messy_df[i].idx
              /\ DOMAIN messy_df'[i].cells = columns'
              /\ \A c \in columns : messy_df'[i].cells[c] = messy_df[i].cells[c]
              /\ messy_df'[i].cells["Mature Status"] =
                    (IF /\ messy_df[i].cells["Age"].t = "f64"
                        /\ messy_df[i].cells["Age"].v >= 25 * 16
                     THEN Str("Mature") ELSE Str("Not Mature"))]_vars

\* C8 witness: a wrangled table with a row aged exactly 25 and a younger one.
C8_Witness ==
    /\ pc = "performEDA"
    /\ \E i \in 1..Len(messy_df) : messy_df[i].cells["Age"] = F64(25 * 16)
    /\ \E i \in 1..Len(messy_df) :
          /\ messy_df[i].cells["Age"].t = "f64"
          /\ messy_df[i].cells["Age"].v < 25 * 16

----------------------------------------------------------------------------
(* C9 *)

\* C9, as claimed: the fence keeps exactly the rows of the dataframe (as it
\* stands after imputation and the Category drop) whose Sales satisfies
\* Q1 - 1.5*IQR <= Sales <= Q3 + 1.5*IQR.
C9_KeepsExactlyRowsWithinFence ==
    [][pc = "outliers" =>
        messy_df' = SelectSeq(messy_df,
                       LAMBDA r : Within(r.cells["Sales"], FenceLow(messy_df),
                                         FenceHigh(messy_df)))]_vars

----------------------------------------------------------------------------
(* C10 *)

\* The de-duplicated rows of the file as a dataframe, and those of them that
\* have a Category.
Deduplicated ==
    SelectSeq([i \in 1..Len(file.rows) |-> [idx |-> i - 1, cells |-> file.rows[i]]],
              LAMBDA r : r.idx + 1 \in FirstOccurrences)
WithCategory(df) == SelectSeq(df, LAMBDA r : ~isna(r.cells["Category"]))

\* The median of the numbers of column c of df.
MedianOver(df, c) == median(ToNumeric(Column(df, c)))

\* The Sales column the fence is computed over: the surviving rows, a missing
\* or non-numeric Sales replaced by m.
SalesAtFence(m) ==
    LET kept == WithCategory(Deduplicated)
        typed == ToNumeric(Column(kept, "Sales"))
    IN  Assign(kept, "Sales", [i \in 1..Len(typed) |-> IF isna(typed[i]) THEN m ELSE typed[i]])

\* C10: the medians and the modal date are those of all de-duplicated rows,
\* the rows without Category included; a surviving row whose Sales was missing
\* holds that median; the fence is the one of the surviving rows' Sales.
C10_ImputedOverAllRowsFencedOverKept ==
    (Returned /\ pass = 1) =>
        /\ AgeMedian = MedianOver(Deduplicated, "Age")
        /\ salesMedian = MedianOver(Deduplicated, "Sales")
        /\ profitsMedian = MedianOver(Deduplicated, "Profit")
        /\ modal_date =
              Timestamp(mode(ToDatetime(Column(Deduplicated, "Date")))[1])
        /\ \A i \in 1..Len(messy_df) :
              RawCell(messy_df[i], "Sales").t # "num"
                 => messy_df[i].cells["Sales"] = MedianOver(Deduplicated, "Sales")
        /\ lowerB = FenceLow(SalesAtFence(MedianOver(Deduplicated, "Sales")))
        /\ upperB = FenceHigh(SalesAtFence(MedianOver(Deduplicated, "Sales")))

\* C10 witness: a returned row holds an imputed Sales that is not the median of
\* the rows that survived the Category drop.
C10_Witness ==
    /\ Returned /\ pass = 1
    /\ MedianOver(WithCategory(Deduplicated), "Sales").t = "f64"
    /\ salesMedian # MedianOver(WithCategory(Deduplicated), "Sales")
    /\ \E i \in 1..Len(messy_df) :
          /\ RawCell(messy_df[i], "Sales").t # "num"
          /\ messy_df[i].cells["Sales"] = salesMedian

=============================================================================
